---- MODULE Spec2Model ----
(***************************************************************************)
(* Model of the post creator in src/main.rs: the command line arguments,   *)
(* the linear pipeline of main() (load fonts, font sizes, images, date,    *)
(* colour, header sizes, header fit check, content sizes, canvas, the      *)
(* paint steps, output directory, save) and the pure computations it       *)
(* calls (caption wrapping, image height, date formatting, colour          *)
(* parsing).                                                               *)
(*                                                                         *)
(* Strings are sequences of one-character strings.  u32 arithmetic is      *)
(* modelled at WordBits bits: an operation whose exact result leaves the   *)
(* range panics when the build checks overflow (debug profile) and wraps   *)
(* otherwise (release profile); the profile is part of the environment.    *)
(* f32 arithmetic is modelled exactly as binary floating point with a      *)
(* 24 bit significand and round-to-nearest-even.                           *)
(***************************************************************************)
EXTENDS Integers, Sequences, FiniteSets, TLC

VARIABLES args, env, pc, date, header_color, logo, image, values,
          max_width, captions, height, post, y, output, failure, log

vars == <<args, env, pc, date, header_color, logo, image, values,
          max_width, captions, height, post, y, output, failure, log>>

(***************************************************************************)
(* Bounds of the model.                                                    *)
(***************************************************************************)
WordBits == 6
MaxCaptionLen == 4
MaxWidth == 8

None == "none"

(***************************************************************************)
(* u32 arithmetic.  A value under computation carries the wrapped result   *)
(* and whether any operation so far left the range.                        *)
(***************************************************************************)
U32Modulus == 2 ^ WordBits
U32Max == U32Modulus - 1
InU32(x) == x >= 0 /\ x <= U32Max
WrapU32(x) == x % U32Modulus

U(x) == [v |-> x, o |-> FALSE]
UAdd(a, b) == [v |-> WrapU32(a.v + b.v), o |-> a.o \/ b.o \/ ~InU32(a.v + b.v)]
USub(a, b) == [v |-> WrapU32(a.v - b.v), o |-> a.o \/ b.o \/ ~InU32(a.v - b.v)]
UMul(a, b) == [v |-> WrapU32(a.v * b.v), o |-> a.o \/ b.o \/ ~InU32(a.v * b.v)]

RECURSIVE USum(_)
USum(s) == IF s = <<>> THEN U(0) ELSE UAdd(USum(SubSeq(s, 1, Len(s) - 1)), U(s[Len(s)]))

\* An overflowed computation panics exactly when the build checks overflow.
Panics(r) == r.o /\ env.overflow_checks

\* u32 as i32 reinterprets the top bit as the sign; u32 as i64 keeps the value.
AsI32(v) == IF v >= 2 ^ (WordBits - 1) THEN v - U32Modulus ELSE v
AsI64(v) == v

(***************************************************************************)
(* f32 arithmetic.  A value is m / 2^e with m < 2^24, in lowest terms.     *)
(***************************************************************************)
F32Bits == 24

RECURSIVE F32Canon(_, _)
F32Canon(m, e) ==
    IF m = 0 THEN [m |-> 0, e |-> 0]
    ELSE IF e > 0 /\ m % 2 = 0 THEN F32Canon(m \div 2, e - 1)
    ELSE [m |-> m, e |-> e]

\* Round to nearest, ties to even, of n / d to an integer.
RoundHalfEven(n, d) ==
    LET q == n \div d
        r == n % d
    IN IF 2 * r > d \/ (2 * r = d /\ q % 2 = 1) THEN q + 1 ELSE q

\* The least t with m / 2^t < 2^24.
RECURSIVE F32Excess(_)
F32Excess(m) == IF m < 2 ^ F32Bits THEN 0 ELSE 1 + F32Excess(m \div 2)

\* The f32 nearest to m / 2^e.
F32Round(m, e) ==
    LET t == F32Excess(m)
    IN IF t = 0 THEN F32Canon(m, e)
       ELSE F32Canon(RoundHalfEven(m, 2 ^ t), e - t)

F32FromU32(n) == F32Round(n, 0)

F32Mul(a, b) == F32Round(a.m * b.m, a.e + b.e)

\* The least k with (n * 2^k) \div d >= 2^23, for n, d > 0.
RECURSIVE F32Shift(_, _)
F32Shift(n, d) == IF n \div d >= 2 ^ (F32Bits - 1) THEN 0 ELSE 1 + F32Shift(2 * n, d)

\* a / b for b > 0 (the divisor is an image width, which is positive).
F32Div(a, b) ==
    IF a.m = 0 THEN [m |-> 0, e |-> 0]
    ELSE LET k == F32Shift(a.m, b.m)
         IN F32Round(RoundHalfEven(a.m * 2 ^ k, b.m), k + a.e - b.e)

F32Less(a, b) ==
    LET ia == a.m \div 2 ^ a.e
        ib == b.m \div 2 ^ b.e
        fa == a.m % 2 ^ a.e
        fb == b.m % 2 ^ b.e
    IN \/ ia < ib
       \/ /\ ia = ib
          /\ IF a.e <= b.e THEN fa * 2 ^ (b.e - a.e) < fb
                           ELSE fa < fb * 2 ^ (a.e - b.e)

F32Min(a, b) == IF F32Less(b, a) THEN b ELSE a

\* f32 as u32: truncation toward zero, saturating at the largest u32.
F32AsU32(a) ==
    LET t == a.m \div 2 ^ a.e
    IN IF t > U32Max THEN U32Max ELSE t

(***************************************************************************)
(* Strings.                                                                *)
(***************************************************************************)
RECURSIVE Digits(_)
Digits(n) ==
    LET d == <<"0", "1", "2", "3", "4", "5", "6", "7", "8", "9">>[(n % 10) + 1]
    IN IF n < 10 THEN <<d>> ELSE Append(Digits(n \div 10), d)

\* str::split(" "): the pieces between single spaces, empty pieces included.
RECURSIVE SplitFrom(_, _, _, _)
SplitFrom(s, i, piece, pieces) ==
    IF i > Len(s) THEN Append(pieces, piece)
    ELSE IF s[i] = " " THEN SplitFrom(s, i + 1, <<>>, Append(pieces, piece))
    ELSE SplitFrom(s, i + 1, Append(piece, s[i]), pieces)

split(s) == SplitFrom(s, 1, <<>>, <<>>)

(***************************************************************************)
(* Text measurement (imageproc's text_size): the advances of the glyphs    *)
(* laid side by side and the font's line height; an empty string measures  *)
(* (0, 0).  A font at its size is [glyph, space, unit, height]: the        *)
(* advance of a visible glyph and of a space in 1/unit pixels, and the     *)
(* line height in pixels; the width is the sum of the advances, rounded up *)
(* to whole pixels.                                                        *)
(***************************************************************************)
RECURSIVE AdvanceSum(_, _)
AdvanceSum(font, text) ==
    IF text = <<>> THEN 0
    ELSE (IF Head(text) = " " THEN font.space ELSE font.glyph)
         + AdvanceSum(font, Tail(text))

text_size(font, text) ==
    IF text = <<>> THEN <<0, 0>>
    ELSE <<WrapU32((AdvanceSum(font, text) + font.unit - 1) \div font.unit), font.height>>

(***************************************************************************)
(* create_formatted_date.                                                  *)
(***************************************************************************)
IsLeap(year) == (year % 4 = 0 /\ year % 100 # 0) \/ year % 400 = 0

DaysInMonth(year, month) ==
    IF month = 2 THEN (IF IsLeap(year) THEN 29 ELSE 28)
    ELSE IF month \in {4, 6, 9, 11} THEN 30 ELSE 31

\* chrono::NaiveDate::from_ymd_opt is Some exactly for a calendar date.
from_ymd_opt(year, month, day) ==
    month \in 1..12 /\ day >= 1 /\ day <= DaysInMonth(year, month)

MonthAbbr(month) ==
    << <<"J", "a", "n">>, <<"F", "e", "b">>, <<"M", "a", "r">>, <<"A", "p", "r">>,
       <<"M", "a", "y">>, <<"J", "u", "n">>, <<"J", "u", "l">>, <<"A", "u", "g">>,
       <<"S", "e", "p">>, <<"O", "c", "t">>, <<"N", "o", "v">>, <<"D", "e", "c">> >>[month]

\* ordinal::Ordinal: 1st, 2nd, 3rd, 4th, ..., 11th, 12th, 13th, 21st, ...
Ordinal(n) ==
    Digits(n) \o
    (IF (n % 100) \in 11..13 THEN <<"t", "h">>
     ELSE IF n % 10 = 1 THEN <<"s", "t">>
     ELSE IF n % 10 = 2 THEN <<"n", "d">>
     ELSE IF n % 10 = 3 THEN <<"r", "d">>
     ELSE <<"t", "h">>)

create_formatted_date(day, month, year) ==
    IF from_ymd_opt(year, month, day)
    THEN [ok |-> TRUE,
          date |-> MonthAbbr(month) \o <<".", " ">> \o Ordinal(day)
                   \o <<",", " ">> \o Digits(year)]
    ELSE [ok |-> FALSE, date |-> None]

(***************************************************************************)
(* parse_color.                                                            *)
(***************************************************************************)
HexChars == <<"0", "1", "2", "3", "4", "5", "6", "7", "8", "9",
              "a", "b", "c", "d", "e", "f">>

\* The value of every hex digit, lower and upper case.
HexDigitValue ==
    [c \in {"0", "1", "2", "3", "4", "5", "6", "7", "8", "9", "a", "b", "c", "d",
            "e", "f", "A", "B", "C", "D", "E", "F"} |->
        CASE c \in {"a", "A"} -> 10
          [] c \in {"b", "B"} -> 11
          [] c \in {"c", "C"} -> 12
          [] c \in {"d", "D"} -> 13
          [] c \in {"e", "E"} -> 14
          [] c \in {"f", "F"} -> 15
          [] OTHER -> CHOOSE i \in 0..9 : HexChars[i + 1] = c]

IsHex(c) == c \in DOMAIN HexDigitValue
HexVal(c) == HexDigitValue[c]

\* hex::decode: an error for an odd length or a character that is no hex
\* digit, otherwise one byte for every two digits.
hex_decode(s) ==
    IF Len(s) % 2 # 0 \/ \E i \in 1..Len(s) : ~IsHex(s[i])
    THEN [ok |-> FALSE, value |-> <<>>]
    ELSE [ok |-> TRUE,
          value |-> [i \in 1..(Len(s) \div 2) |->
                        16 * HexVal(s[2 * i - 1]) + HexVal(s[2 * i])]]

\* The indices parse_color reads (zero based, as in the source).
RedIndex == 86
GreenIndex == 255
BlueIndex == 241

\* Indexing a Vec past its end panics.
parse_color(color) ==
    LET d == hex_decode(color)
        n == Len(d.value)
    IN IF ~d.ok THEN [kind |-> "err", color |-> None]
       ELSE IF RedIndex >= n \/ GreenIndex >= n \/ BlueIndex >= n
       THEN [kind |-> "panic", color |-> None]
       ELSE [kind |-> "ok",
             color |-> <<d.value[RedIndex + 1], d.value[GreenIndex + 1],
                         d.value[BlueIndex + 1], "0.8">>]

\* The --header-color strings of the model, by name: the default of line 78,
\* one with a character that is no hex digit, one of odd length, and one of
\* 512 digits whose byte i is i.
LongColor ==
    [k \in 1..512 |->
        IF k % 2 = 1 THEN HexChars[(((k - 1) \div 2) \div 16) + 1]
                     ELSE HexChars[(((k - 1) \div 2) % 16) + 1]]

ColorText(name) ==
    CASE name = "default" -> <<"0", "7", "8", "c", "5", "1">>
      [] name = "nothex" -> <<"0", "7", "8", "c", "5", "z">>
      [] name = "odd" -> <<"0", "7", "8", "c", "5">>
      [] name = "long" -> LongColor

(***************************************************************************)
(* The caption loop of calculate_content_sizes.                            *)
(***************************************************************************)
\* The line with push_str(word) reached only for an empty current line.
new_line_dropping_word(current_line, word) ==
    IF current_line # <<>> THEN current_line \o <<" ">> ELSE word

\* Lines 172-176: the current line with the word appended, a space between
\* them when the current line is not empty.
new_line_of(current_line, word) ==
    IF current_line # <<>> THEN current_line \o <<" ">> \o word ELSE word

\* The comparison off by one pixel.
TooWideOffByOne(size, width) == size[1] > width + 1

\* Line 178.
TooWide(size, width) == size[1] > width

\* Lines 171-185, from word i on.
RECURSIVE WrapFrom(_, _, _, _, _, _)
WrapFrom(font, words, i, lines, current_line, width) ==
    IF i > Len(words) THEN Append(lines, current_line)
    ELSE LET word == words[i]
             new_line == new_line_of(current_line, word)
         IN IF TooWide(text_size(font, new_line), width)
            THEN WrapFrom(font, words, i + 1, Append(lines, current_line), word, width)
            ELSE WrapFrom(font, words, i + 1, lines, new_line, width)

wrap_caption(font, caption, width) == WrapFrom(font, split(caption), 1, <<>>, <<>>, width)

(***************************************************************************)
(* The image size of calculate_content_sizes (lines 191-195).              *)
(***************************************************************************)
image_width_of(width, extra_padding) == USub(U(width), UMul(U(2), U(extra_padding)))

\* Line 195: the cast of the f32 height to u32.
HeightCast(h) == F32AsU32(h)

image_height_of(image_width, image_size, max_stretch) ==
    LET w == F32FromU32(image_width)
        scaled == F32Mul(F32Div(w, F32FromU32(image_size[1])), F32FromU32(image_size[2]))
        clamped == F32Min(scaled, F32Mul(w, max_stretch))
    IN HeightCast(clamped)

(***************************************************************************)
(* The pipeline of main().  pc is the stage about to run; every stage      *)
(* appends its name to log when it runs.  A stage that fails returns from  *)
(* main (kind "error") or unwinds it (kind "panic"); both end the run.     *)
(***************************************************************************)
Stages == <<"load_fonts", "create_font_sizes", "load_images",
            "create_formatted_date", "parse_color", "tint_logo",
            "calculate_header_sizes", "header_fit", "calculate_content_sizes",
            "create_canvas", "paint_header", "paint_rule", "paint_image",
            "paint_captions", "create_dir", "save">>

StageIndex(s) == CHOOSE i \in 1..Len(Stages) : Stages[i] = s

Enter(stage) == pc = stage /\ log' = Append(log, stage)

NoFailure == [stage |-> None, kind |-> None]
NoCanvas == [width |-> 0, height |-> 0, ops |-> <<>>]
NoOutput == [name |-> <<>>, width |-> 0, height |-> 0]

\* The failure reported without the return: the run goes on to the next stage.
FailWithoutReturn(stage, kind) ==
    /\ failure' = [stage |-> stage, kind |-> kind]
    /\ pc' = IF StageIndex(stage) < Len(Stages) THEN Stages[StageIndex(stage) + 1]
                                                ELSE "exited"

\* The eprintln! and return of a failed stage (lines 205-208 and alike), or
\* the unwinding of a panic.
Fail(stage, kind) ==
    /\ failure' = [stage |-> stage, kind |-> kind]
    /\ pc' = "exited"

Goto(stage) == pc' = stage /\ failure' = failure

\* Lines 203-209.
LoadFonts ==
    /\ Enter("load_fonts")
    /\ \E ok \in BOOLEAN :
          IF ok THEN Goto("create_font_sizes") ELSE Fail("load_fonts", "error")
    /\ UNCHANGED <<args, env, date, header_color, logo, image, values,
                   max_width, captions, height, post, y, output>>

\* Lines 211-217.
CreateFontSizes ==
    /\ Enter("create_font_sizes")
    /\ \E ok \in BOOLEAN :
          IF ok THEN Goto("load_images") ELSE Fail("create_font_sizes", "error")
    /\ UNCHANGED <<args, env, date, header_color, logo, image, values,
                   max_width, captions, height, post, y, output>>

\* Lines 219-234.
LoadImages ==
    /\ Enter("load_images")
    /\ \E ok \in BOOLEAN :
          IF ok
          THEN /\ Goto("create_formatted_date")
               /\ image' = [size |-> env.image_size]
               /\ logo' = [size |-> env.logo_size, tint |-> None]
          ELSE /\ Fail("load_images", "error")
               /\ UNCHANGED <<image, logo>>
    /\ UNCHANGED <<args, env, date, header_color, values,
                   max_width, captions, height, post, y, output>>

\* Lines 236-242.
CreateFormattedDate ==
    /\ Enter("create_formatted_date")
    /\ LET r == create_formatted_date(args.day, args.month, args.year)
       IN IF r.ok
          THEN Goto("parse_color") /\ date' = r.date
          ELSE Fail("create_formatted_date", "error") /\ date' = date
    /\ UNCHANGED <<args, env, header_color, logo, image, values,
                   max_width, captions, height, post, y, output>>

\* Lines 244-250.
ParseColor ==
    /\ Enter("parse_color")
    /\ LET r == parse_color(ColorText(args.header_color))
       IN IF r.kind = "ok"
          THEN Goto("tint_logo") /\ header_color' = r.color
          ELSE Fail("parse_color", r.kind) /\ header_color' = header_color
    /\ UNCHANGED <<args, env, date, logo, image, values,
                   max_width, captions, height, post, y, output>>

\* Lines 252-257: the logo's pixels are multiplied by the header colour.
TintLogo ==
    /\ Enter("tint_logo")
    /\ Goto("calculate_header_sizes")
    /\ logo' = [logo EXCEPT !.tint = SubSeq(header_color, 1, 3)]
    /\ UNCHANGED <<args, env, date, header_color, image, values,
                   max_width, captions, height, post, y, output>>

\* Line 265.
max_width_of(width, padding) == USub(U(width), UMul(U(2), U(padding)))

\* Lines 259-265: calculate_header_sizes, the logo's resize, max_width.
CalculateHeaderSizes ==
    /\ Enter("calculate_header_sizes")
    /\ LET brand_size == text_size(env.header_font, args.brand)
           date_size == text_size(env.header_font, date)
           side == UAdd(U(brand_size[2]), UMul(U(args.logo_extra), U(2)))
           mw == max_width_of(args.width, args.padding)
       IN /\ values' = [values EXCEPT !.brand_size = brand_size,
                                      !.date_size = date_size,
                                      !.logo_size = <<brand_size[2], brand_size[2]>>]
          /\ IF Panics(side)
             THEN Fail("calculate_header_sizes", "panic") /\ UNCHANGED <<logo, max_width>>
             ELSE /\ logo' = [logo EXCEPT !.size = <<side.v, side.v>>]
                  /\ IF Panics(mw)
                     THEN Fail("calculate_header_sizes", "panic") /\ max_width' = max_width
                     ELSE Goto("header_fit") /\ max_width' = mw.v
    /\ UNCHANGED <<args, env, date, header_color, image,
                   captions, height, post, y, output>>

\* Line 267, left of the comparison.
header_width_of(v, logo_padding) ==
    UAdd(UAdd(UAdd(U(v.brand_size[1]), U(v.logo_size[1])), U(v.date_size[1])),
         UMul(U(logo_padding), U(2)))

\* Line 267: the comparison.
HeaderTooWide(total, limit) == total > limit

\* Lines 267-270.
HeaderFit ==
    /\ Enter("header_fit")
    /\ LET total == header_width_of(values, args.logo_padding)
       IN IF Panics(total) THEN Fail("header_fit", "panic")
          ELSE IF HeaderTooWide(total.v, max_width) THEN Fail("header_fit", "error")
          ELSE Goto("calculate_content_sizes")
    /\ UNCHANGED <<args, env, date, header_color, logo, image, values,
                   max_width, captions, height, post, y, output>>

\* Lines 272-273: calculate_content_sizes and the image's resize_to_fill.
CalculateContentSizes ==
    /\ Enter("calculate_content_sizes")
    /\ LET lines == wrap_caption(env.caption_font, args.caption, max_width)
           sizes == [i \in 1..Len(lines) |-> text_size(env.caption_font, lines[i])]
           iw == image_width_of(max_width, args.extra_padding)
           ih == image_height_of(iw.v, image.size, args.stretch)
       IN IF Panics(iw)
          THEN /\ Fail("calculate_content_sizes", "panic")
               /\ values' = [values EXCEPT !.caption_sizes = sizes]
               /\ UNCHANGED <<captions, image>>
          ELSE /\ Goto("create_canvas")
               /\ values' = [values EXCEPT !.caption_sizes = sizes,
                                           !.image_size = <<iw.v, ih>>]
               /\ captions' = lines
               /\ image' = [size |-> <<iw.v, ih>>]
    /\ UNCHANGED <<args, env, date, header_color, logo,
                   max_width, height, post, y, output>>

\* Line 275.
caption_height_of(sizes, line_padding) ==
    UAdd(USum([i \in 1..Len(sizes) |-> sizes[i][2]]),
         UMul(USub(U(Len(sizes)), U(1)), U(line_padding)))

\* Line 276.
height_of(a, v, caption_height) ==
    UAdd(UAdd(UAdd(UAdd(UAdd(UAdd(UAdd(UAdd(UAdd(
        U(a.padding), U(v.brand_size[2])), U(a.logo_padding)), U(a.line_thickness)),
        U(a.extra_padding)), U(v.image_size[2])), U(a.extra_padding)),
        caption_height), U(a.padding)), U(a.padding))

\* Lines 275-281: the canvas is created, filled with white, y starts at padding.
CreateCanvas ==
    /\ Enter("create_canvas")
    /\ LET h == height_of(args, values, caption_height_of(values.caption_sizes, args.line_padding))
       IN IF Panics(h)
          THEN Fail("create_canvas", "panic") /\ UNCHANGED <<height, post, y>>
          ELSE /\ Goto("paint_header")
               /\ height' = h.v
               /\ post' = [width |-> args.width, height |-> h.v,
                           ops |-> << [op |-> "fill", x |-> 0, y |-> 0,
                                       w |-> args.width, h |-> h.v] >>]
               /\ y' = args.padding
    /\ UNCHANGED <<args, env, date, header_color, logo, image, values,
                   max_width, captions, output>>

(***************************************************************************)
(* Painting.  Every paint call is recorded on the canvas as                *)
(* [op, x, y, w, h] with the coordinates as the call receives them (after  *)
(* the cast to i32 or i64) and the size of what is painted.  A paint step  *)
(* yields the operations it performed, the new y, and whether it panicked. *)
(***************************************************************************)
Op(name, x, yy, size) == [op |-> name, x |-> x, y |-> yy, w |-> size[1], h |-> size[2]]

\* Lines 283-287.
paint_header(a, v, lg, y0) ==
    LET logo_y == USub(U(y0), U(a.logo_extra))
        brand_x == UAdd(UAdd(UAdd(U(a.padding), U(v.logo_size[2])), U(a.logo_padding)),
                        UMul(U(a.logo_extra), U(2)))
        date_x == USub(USub(U(a.width), U(v.date_size[1])), U(a.padding))
        y1 == UAdd(U(y0), UAdd(U(v.brand_size[2]), U(a.logo_padding)))
        op1 == Op("logo", AsI64(a.padding), AsI64(logo_y.v), lg.size)
        op2 == Op("brand", AsI32(brand_x.v), AsI32(y0), v.brand_size)
        op3 == Op("date", AsI32(date_x.v), AsI32(y0), v.date_size)
    IN IF Panics(logo_y) THEN [ops |-> <<>>, y |-> y0, panic |-> TRUE]
       ELSE IF Panics(brand_x) THEN [ops |-> <<op1>>, y |-> y0, panic |-> TRUE]
       ELSE IF Panics(date_x) THEN [ops |-> <<op1, op2>>, y |-> y0, panic |-> TRUE]
       ELSE IF Panics(y1) THEN [ops |-> <<op1, op2, op3>>, y |-> y0, panic |-> TRUE]
       ELSE [ops |-> <<op1, op2, op3>>, y |-> y1.v, panic |-> FALSE]

\* Lines 289-291.  Rect::of_size panics for a width or a height of zero.
paint_rule(a, y0) ==
    LET w == USub(U(a.width), UMul(U(2), U(a.padding)))
        y1 == UAdd(U(y0), UAdd(U(a.line_thickness), U(a.extra_padding)))
        op1 == Op("rule", AsI32(a.padding), AsI32(y0), <<w.v, a.line_thickness>>)
    IN IF Panics(w) \/ w.v = 0 \/ a.line_thickness = 0
       THEN [ops |-> <<>>, y |-> y0, panic |-> TRUE]
       ELSE IF Panics(y1) THEN [ops |-> <<op1>>, y |-> y0, panic |-> TRUE]
       ELSE [ops |-> <<op1>>, y |-> y1.v, panic |-> FALSE]

\* Lines 293-295.
paint_image(a, v, y0) ==
    LET x == UAdd(U(a.padding), U(a.extra_padding))
        y1 == UAdd(U(y0), UAdd(U(v.image_size[2]), U(a.extra_padding)))
        op1 == Op("image", AsI64(x.v), AsI64(y0), v.image_size)
    IN IF Panics(x) THEN [ops |-> <<>>, y |-> y0, panic |-> TRUE]
       ELSE IF Panics(y1) THEN [ops |-> <<op1>>, y |-> y0, panic |-> TRUE]
       ELSE [ops |-> <<op1>>, y |-> y1.v, panic |-> FALSE]

\* Line 299: the cursor after a caption line of the given height.
caption_advance(y0, line_height, line_padding) ==
    UAdd(U(y0), UAdd(U(line_height), U(line_padding)))

\* Lines 297-300, from line i on (zip stops at the shorter sequence).
RECURSIVE paint_captions(_, _, _, _, _, _)
paint_captions(a, sizes, lines, i, ops, y0) ==
    IF i > Len(lines) \/ i > Len(sizes) THEN [ops |-> ops, y |-> y0, panic |-> FALSE]
    ELSE LET op1 == Op("caption", AsI32(a.padding), AsI32(y0), sizes[i])
             y1 == caption_advance(y0, sizes[i][2], a.line_padding)
         IN IF Panics(y1) THEN [ops |-> Append(ops, op1), y |-> y0, panic |-> TRUE]
            ELSE paint_captions(a, sizes, lines, i + 1, Append(ops, op1), y1.v)

Painted(stage, next, r) ==
    /\ post' = [post EXCEPT !.ops = post.ops \o r.ops]
    /\ y' = r.y
    /\ IF r.panic THEN Fail(stage, "panic") ELSE Goto(next)

PaintHeader ==
    /\ Enter("paint_header")
    /\ Painted("paint_header", "paint_rule", paint_header(args, values, logo, y))
    /\ UNCHANGED <<args, env, date, header_color, logo, image, values,
                   max_width, captions, height, output>>

PaintRule ==
    /\ Enter("paint_rule")
    /\ Painted("paint_rule", "paint_image", paint_rule(args, y))
    /\ UNCHANGED <<args, env, date, header_color, logo, image, values,
                   max_width, captions, height, output>>

PaintImage ==
    /\ Enter("paint_image")
    /\ Painted("paint_image", "paint_captions", paint_image(args, values, y))
    /\ UNCHANGED <<args, env, date, header_color, logo, image, values,
                   max_width, captions, height, output>>

PaintCaptions ==
    /\ Enter("paint_captions")
    /\ Painted("paint_captions", "create_dir",
               paint_captions(args, values.caption_sizes, captions, 1, <<>>, y))
    /\ UNCHANGED <<args, env, date, header_color, logo, image, values,
                   max_width, captions, height, output>>

\* Lines 302-305.
CreateDir ==
    /\ Enter("create_dir")
    /\ \E ok \in BOOLEAN :
          IF ok THEN Goto("save") ELSE Fail("create_dir", "error")
    /\ UNCHANGED <<args, env, date, header_color, logo, image, values,
                   max_width, captions, height, post, y, output>>

\* {:02}: at least two digits, padded with zeros.
Pad2(n) == IF n < 10 THEN <<"0">> \o Digits(n) ELSE Digits(n)

\* Line 307.
output_name(a) ==
    Digits(a.year) \o <<"-">> \o Pad2(a.month) \o <<"-">> \o Pad2(a.day)
    \o <<".", "p", "n", "g">>

\* Lines 307-311: the file exists with the canvas in it when save returns Ok.
Save ==
    /\ Enter("save")
    /\ \E ok \in BOOLEAN :
          IF ok
          THEN /\ output' = [name |-> output_name(args), width |-> post.width,
                             height |-> post.height]
               /\ pc' = "exited"
               /\ failure' = failure
          ELSE Fail("save", "error") /\ output' = output
    /\ UNCHANGED <<args, env, date, header_color, logo, image, values,
                   max_width, captions, height, post, y>>

Next ==
    \/ LoadFonts
    \/ CreateFontSizes
    \/ LoadImages
    \/ CreateFormattedDate
    \/ ParseColor
    \/ TintLogo
    \/ CalculateHeaderSizes
    \/ HeaderFit
    \/ CalculateContentSizes
    \/ CreateCanvas
    \/ PaintHeader
    \/ PaintRule
    \/ PaintImage
    \/ PaintCaptions
    \/ CreateDir
    \/ Save

(***************************************************************************)
(* Inputs.  The command line (struct Args, lines 12-100) and the           *)
(* environment: the build profile, the two fonts at their sizes, the size  *)
(* of the decoded image and logo.                                          *)
(***************************************************************************)
HeaderFont == [glyph |-> 1, space |-> 1, unit |-> 16, height |-> 1]
CaptionFont == [glyph |-> 2, space |-> 1, unit |-> 1, height |-> 2]

Half == [m |-> 1, e |-> 1]
OneAndHalf == [m |-> 3, e |-> 1]

Brand == <<"G", "e", "o">>

BaseArgs ==
    [width |-> MaxWidth, stretch |-> OneAndHalf, padding |-> 1, extra_padding |-> 1,
     logo_padding |-> 1, logo_extra |-> 1, line_padding |-> 1, line_thickness |-> 1,
     brand |-> Brand, day |-> 3, month |-> 1, year |-> 2024,
     header_color |-> "long", caption |-> <<"a", " ", "b", "b">>]

BaseEnv ==
    [overflow_checks |-> TRUE, header_font |-> HeaderFont, caption_font |-> CaptionFont,
     image_size |-> <<1, 1>>, logo_size |-> <<4, 4>>]

\* Runs that differ in the date, the colour and the stretch limit.
DateColorArgs ==
    {[BaseArgs EXCEPT !.day = d, !.month = m, !.header_color = c, !.stretch = s] :
        d \in {3, 22, 31}, m \in {1, 2}, c \in {"default", "nothex", "odd", "long"},
        s \in {Half, OneAndHalf}}

\* Runs that differ in the spacing.
SpacingArgs ==
    {[BaseArgs EXCEPT !.width = w, !.padding = p, !.extra_padding = e,
                      !.logo_padding = lp, !.logo_extra = le, !.line_padding = l,
                      !.line_thickness = t, !.caption = c] :
        w \in 0..MaxWidth, p \in 0..1, e \in 0..2, lp \in 0..1, le \in 0..1,
        l \in 0..1, t \in {0, 1, U32Max},
        c \in {<<"a", "b">>, <<"a", " ", "b", "b">>}}

SpacingEnvs ==
    {[BaseEnv EXCEPT !.overflow_checks = oc, !.image_size = s] :
        oc \in BOOLEAN, s \in {<<1, 1>>, <<1, 3>>}}

NoValues ==
    [logo_size |-> <<0, 0>>, brand_size |-> <<0, 0>>, date_size |-> <<0, 0>>,
     image_size |-> <<0, 0>>, caption_sizes |-> <<>>]

Start ==
    /\ pc = "load_fonts"
    /\ date = None
    /\ header_color = None
    /\ logo = None
    /\ image = None
    /\ values = NoValues
    /\ max_width = None
    /\ captions = None
    /\ height = None
    /\ post = NoCanvas
    /\ y = None
    /\ output = NoOutput
    /\ failure = NoFailure
    /\ log = <<>>

Init ==
    /\ \/ args \in DateColorArgs /\ env = BaseEnv
       \/ args \in SpacingArgs /\ env \in SpacingEnvs
    /\ Start

Spec == Init /\ [][Next]_vars

(***************************************************************************)
(* The same program on many captions: every caption of at most             *)
(* MaxCaptionLen characters over two letters and the space, four caption   *)
(* fonts, and every canvas width the header fits in.                       *)
(***************************************************************************)
Alphabet == {"a", "b", " "}

AllCaptions == UNION {[1..n -> Alphabet] : n \in 0..MaxCaptionLen}

CaptionFonts ==
    {[glyph |-> g, space |-> s, unit |-> 1, height |-> 2] : g \in {1, 4}, s \in {1, 2}}

WrapArgs ==
    {[BaseArgs EXCEPT !.width = w, !.padding = 0, !.extra_padding = 0,
                      !.logo_padding = 0, !.logo_extra = 0, !.caption = c] :
        w \in 2..MaxWidth, c \in AllCaptions}

WrapEnvs == {[BaseEnv EXCEPT !.caption_font = f] : f \in CaptionFonts}

WrapInit ==
    /\ args \in WrapArgs
    /\ env \in WrapEnvs
    /\ Start

WrapSpec == WrapInit /\ [][Next]_vars

(***************************************************************************)
(* Properties.                                                             *)
(***************************************************************************)
Ran(stage) == \E i \in 1..Len(log) : log[i] = stage

\* The stage ran and neither returned an error nor panicked.
Completed(stage) == Ran(stage) /\ failure.stage # stage

RECURSIVE NonEmpty(_)
NonEmpty(ss) ==
    IF ss = <<>> THEN <<>>
    ELSE IF Head(ss) = <<>> THEN NonEmpty(Tail(ss))
    ELSE <<Head(ss)>> \o NonEmpty(Tail(ss))

\* The non-empty words of a string.
WordsOf(s) == NonEmpty(split(s))

\* The non-empty words of the lines, in order.
RECURSIVE WordsOfLines(_)
WordsOfLines(lines) ==
    IF lines = <<>> THEN <<>> ELSE WordsOf(Head(lines)) \o WordsOfLines(Tail(lines))

\* C1: wrapping never loses, duplicates or reorders a word: the non-empty
\* words of the returned lines, in order, are the non-empty words of the
\* caption.
C1_WordsPreserved ==
    Completed("calculate_content_sizes") => WordsOfLines(captions) = WordsOf(args.caption)

\* A caption of three words with a doubled space wrapped onto several lines.
C1_Witness ==
    /\ Completed("calculate_content_sizes")
    /\ Len(captions) >= 2
    /\ Len(WordsOf(args.caption)) >= 2
    /\ Len(split(args.caption)) > Len(WordsOf(args.caption))

\* C2: a caption of N >= 1 words (pieces between single spaces) is wrapped
\* onto at least 1 and at most N lines.
C2_LineCount ==
    Completed("calculate_content_sizes") =>
        /\ Len(captions) >= 1
        /\ Len(captions) <= Len(split(args.caption))

\* C3: every returned line of two or more words measures at most the
\* maximum width; only a line of a single word may be wider.
C3_LinesFit ==
    Completed("calculate_content_sizes") =>
        \A i \in 1..Len(captions) :
            Len(WordsOf(captions[i])) >= 2 => values.caption_sizes[i][1] <= max_width

\* The caption was broken, and one of its lines holds two words and is
\* exactly as wide as the maximum width.
C3_Witness ==
    /\ Completed("calculate_content_sizes")
    /\ Len(captions) >= 2
    /\ \E i \in 1..Len(captions) :
          /\ Len(WordsOf(captions[i])) >= 2
          /\ values.caption_sizes[i][1] = max_width

\* C4: the header fit check reports "does not fit" exactly when
\* brandWidth + logoWidth + dateWidth + 2*logoPadding > canvasWidth - 2*padding,
\* the logo width being the brand text height; at equality the check passes.
C4_HeaderFitExact ==
    (Ran("calculate_header_sizes") /\ pc # "header_fit") =>
        ((failure = [stage |-> "header_fit", kind |-> "error"])
         <=> (values.brand_size[1] + values.brand_size[2] + values.date_size[1]
              + 2 * args.logo_padding > args.width - 2 * args.padding))

\* C5: the image height is at most imageWidth * stretchLimit and is the
\* truncation of min(imageWidth / sourceWidth * sourceHeight,
\* imageWidth * stretchLimit), with imageWidth = maxWidth - 2*extraPadding.
C5_ImageHeight ==
    Completed("calculate_content_sizes") =>
        LET iw == values.image_size[1]
            ih == values.image_size[2]
            w == F32FromU32(iw)
            bound == F32Mul(w, args.stretch)
            scaled == F32Mul(F32Div(w, F32FromU32(env.image_size[1])),
                             F32FromU32(env.image_size[2]))
            least == F32Min(scaled, bound)
        IN /\ iw = max_width - 2 * args.extra_padding
           /\ ~F32Less(bound, F32FromU32(ih))
           /\ ih = least.m \div 2 ^ least.e

RECURSIVE SumHeights(_)
SumHeights(sizes) == IF sizes = <<>> THEN 0 ELSE Head(sizes)[2] + SumHeights(Tail(sizes))

\* C6: the canvas is as wide as configured and as high as padding +
\* brandHeight + logoPadding + ruleThickness + extraPadding + imageHeight +
\* extraPadding + the caption line heights + (lineCount-1)*linePadding +
\* padding + padding.
C6_CanvasSize ==
    Len(post.ops) > 0 =>
        /\ post.width = args.width
        /\ post.height =
              args.padding + values.brand_size[2] + args.logo_padding
              + args.line_thickness + args.extra_padding + values.image_size[2]
              + args.extra_padding + SumHeights(values.caption_sizes)
              + (Len(values.caption_sizes) - 1) * args.line_padding
              + args.padding + args.padding

InCanvas(o) ==
    /\ o.x >= 0
    /\ o.y >= 0
    /\ o.x + o.w <= post.width
    /\ o.y + o.h <= post.height

\* C7: once the header fit check has passed, every paint coordinate is
\* non-negative, every painted element lies within the canvas, and none of
\* y - logoExtra, width - 2*padding, maxWidth - 2*extraPadding and
\* width - dateWidth - padding goes below zero.
C7_PaintInBounds ==
    Completed("header_fit") =>
        /\ args.width - 2 * args.padding >= 0
        /\ Ran("calculate_content_sizes") => max_width - 2 * args.extra_padding >= 0
        /\ Ran("paint_header") =>
              /\ args.padding - args.logo_extra >= 0
              /\ args.width - values.date_size[1] - args.padding >= 0
        /\ \A i \in 1..Len(post.ops) : InCanvas(post.ops[i])

C9_ColorParsed ==
    Ran("parse_color") =>
        LET text == ColorText(args.header_color)
        IN IF Len(text) = 6 /\ \A i \in 1..6 : IsHex(text[i])
           THEN /\ Completed("parse_color")
                /\ SubSeq(header_color, 1, 3) =
                      <<16 * HexVal(text[1]) + HexVal(text[2]),
                        16 * HexVal(text[3]) + HexVal(text[4]),
                        16 * HexVal(text[5]) + HexVal(text[6])>>
           ELSE failure = [stage |-> "parse_color", kind |-> "err"]

\* The y the single cursor has when operation i of the canvas is painted.
CursorAt(i) ==
    LET o == post.ops[i]
        rule_y == args.padding + values.brand_size[2] + args.logo_padding
        image_y == rule_y + args.line_thickness + args.extra_padding
        first_y == image_y + values.image_size[2] + args.extra_padding
    IN CASE o.op \in {"brand", "date"} -> args.padding
         [] o.op = "rule" -> rule_y
         [] o.op = "image" -> image_y
         [] o.op = "caption" ->
               first_y + SumHeights(SubSeq(values.caption_sizes, 1, i - 7))
               + (i - 7) * args.line_padding
         [] OTHER -> o.y

\* C10: header row, rule, image and caption lines are painted in this order
\* at the positions of one cursor that never decreases, and the last caption
\* line ends at canvasHeight - 2*padding.
C10_CursorOrder ==
    /\ \A i \in 1..Len(post.ops) : post.ops[i].y = CursorAt(i)
    /\ \A i, j \in 3..Len(post.ops) : i < j => post.ops[i].y <= post.ops[j].y
    /\ Completed("paint_captions") =>
          LET last == post.ops[Len(post.ops)]
          IN last.op = "caption" /\ last.y + last.h = post.height - 2 * args.padding

====
